---------------------------- MODULE Spec2Model ----------------------------
(***************************************************************************)
(* Center-wrap engine of the three-region header bar.                      *)
(*                                                                         *)
(* Two components carry the same engine: LdsDesignerHeader                 *)
(* (designer-header.component.ts) and TopbarComponent                      *)
(* (topbar.component.ts).  The module models                               *)
(*   - the pure decision function shouldWrapCenter,                        *)
(*   - the DOM measurement helpers that build its snapshot,                *)
(*   - the scheduler (layoutUpdateScheduled + setTimeout(0) task queue),   *)
(*   - the measurement pass updateCenterWrapState, statement by statement, *)
(*   - the life cycle (ngAfterViewInit, ngOnDestroy, window:resize).       *)
(*                                                                         *)
(* Lengths are CSS pixels, modelled as integers.  A JavaScript number is a *)
(* record so that NaN and the infinities are values of their own.          *)
(***************************************************************************)
EXTENDS Integers, Sequences, FiniteSets

(***************************************************************************)
(* Bounds of the model.                                                    *)
(***************************************************************************)
\* Largest finite magnitude handed to the pure decision function.
MaxW == 6
\* Largest number of scheduleLayoutCheck calls counted within one burst.
MaxBurst == 3
\* Largest number of bursts (Idle -> PendingRecompute transitions) in a run.
MaxPasses == 3

(***************************************************************************)
(* JavaScript numbers.                                                     *)
(***************************************************************************)
Fin(n) == [kind |-> "finite", val |-> n]
NaN == [kind |-> "NaN", val |-> 0]
PosInf == [kind |-> "+Infinity", val |-> 0]
NegInf == [kind |-> "-Infinity", val |-> 0]
NonFinite == {NaN, PosInf, NegInf}

\* Number.isFinite
isFinite(x) == x.kind = "finite"

\* Mutant: only NaN is replaced; the infinities pass as a very large magnitude.
FiniteOrZeroNaNOnly(x) ==
    IF x.kind = "finite" THEN x.val
    ELSE IF x.kind = "NaN" THEN 0
    ELSE IF x.kind = "+Infinity" THEN 1000000 ELSE -1000000

\* Number.isFinite(v) ? v : 0
FiniteOrZero(x) == IF isFinite(x) THEN x.val ELSE 0

\* JavaScript truthiness of a number: NaN and 0 are falsy.
Truthy(x) == x.kind # "NaN" /\ ~(x.kind = "finite" /\ x.val = 0)

(***************************************************************************)
(* The wrap decision function.                                             *)
(* perSide = remainingForSides / 2 is exact in binary floating point, so   *)
(* width > perSide is compared as 2 * width > remainingForSides.           *)
(***************************************************************************)
\* Mutant: the degenerate early return is missing.
shouldWrapCenterNoDegenerate(params) ==
    LET containerWidth == FiniteOrZero(params.containerWidth)
        leftWidth == FiniteOrZero(params.leftWidth)
        rightWidth == FiniteOrZero(params.rightWidth)
        centerContentWidth == FiniteOrZero(params.centerContentWidth)
        gap == FiniteOrZero(params.gap)
        remainingForSides == containerWidth - centerContentWidth - 2 * gap
    IN  IF remainingForSides <= 0 THEN TRUE
        ELSE 2 * leftWidth > remainingForSides \/ 2 * rightWidth > remainingForSides

\* Mutant: the plain-sum predicate instead of the equal-share predicate.
shouldWrapCenterPlainSum(params) ==
    LET containerWidth == FiniteOrZero(params.containerWidth)
        leftWidth == FiniteOrZero(params.leftWidth)
        rightWidth == FiniteOrZero(params.rightWidth)
        centerContentWidth == FiniteOrZero(params.centerContentWidth)
        gap == FiniteOrZero(params.gap)
    IN  IF containerWidth <= 0 \/ centerContentWidth <= 0 THEN FALSE
        ELSE leftWidth + rightWidth + centerContentWidth + 2 * gap > containerWidth

\* Mutant: no remaining space is reported as "fits".
shouldWrapCenterNoRemainingFits(params) ==
    LET containerWidth == FiniteOrZero(params.containerWidth)
        leftWidth == FiniteOrZero(params.leftWidth)
        rightWidth == FiniteOrZero(params.rightWidth)
        centerContentWidth == FiniteOrZero(params.centerContentWidth)
        gap == FiniteOrZero(params.gap)
        remainingForSides == containerWidth - centerContentWidth - 2 * gap
    IN  IF containerWidth <= 0 \/ centerContentWidth <= 0 THEN FALSE
        ELSE IF remainingForSides <= 0 THEN FALSE
        ELSE 2 * leftWidth > remainingForSides \/ 2 * rightWidth > remainingForSides

\* Mutant: a side exactly filling its share already wraps (>= for >).
shouldWrapCenterTieWraps(params) ==
    LET containerWidth == FiniteOrZero(params.containerWidth)
        leftWidth == FiniteOrZero(params.leftWidth)
        rightWidth == FiniteOrZero(params.rightWidth)
        centerContentWidth == FiniteOrZero(params.centerContentWidth)
        gap == FiniteOrZero(params.gap)
        remainingForSides == containerWidth - centerContentWidth - 2 * gap
    IN  IF containerWidth <= 0 \/ centerContentWidth <= 0 THEN FALSE
        ELSE IF remainingForSides <= 0 THEN TRUE
        ELSE 2 * leftWidth >= remainingForSides \/ 2 * rightWidth >= remainingForSides

\* shouldWrapCenter of designer-header.component.ts (LdsDesignerHeader).
\* Mutant: only the left side is compared with its half-share.
shouldWrapCenterLeftOnly(params) ==
    LET containerWidth == FiniteOrZero(params.containerWidth)
        leftWidth == FiniteOrZero(params.leftWidth)
        centerContentWidth == FiniteOrZero(params.centerContentWidth)
        gap == FiniteOrZero(params.gap)
    IN  IF containerWidth <= 0 \/ centerContentWidth <= 0 THEN FALSE
        ELSE LET remainingForSides == containerWidth - centerContentWidth - 2 * gap
             IN  IF remainingForSides <= 0 THEN TRUE
                 ELSE 2 * leftWidth > remainingForSides

\* Mutant: each side is compared with the whole remaining width, not half.
shouldWrapCenterUnhalved(params) ==
    LET containerWidth == FiniteOrZero(params.containerWidth)
        leftWidth == FiniteOrZero(params.leftWidth)
        rightWidth == FiniteOrZero(params.rightWidth)
        centerContentWidth == FiniteOrZero(params.centerContentWidth)
        gap == FiniteOrZero(params.gap)
    IN  IF containerWidth <= 0 \/ centerContentWidth <= 0 THEN FALSE
        ELSE LET remainingForSides == containerWidth - centerContentWidth - 2 * gap
             IN  IF remainingForSides <= 0 THEN TRUE
                 ELSE leftWidth > remainingForSides \/ rightWidth > remainingForSides

shouldWrapCenter(params) ==
    LET containerWidth == FiniteOrZero(params.containerWidth)
        leftWidth == FiniteOrZero(params.leftWidth)
        rightWidth == FiniteOrZero(params.rightWidth)
        centerContentWidth == FiniteOrZero(params.centerContentWidth)
        gap == FiniteOrZero(params.gap)
        remainingForSides == containerWidth - centerContentWidth - 2 * gap
    IN  IF containerWidth <= 0 \/ centerContentWidth <= 0 THEN FALSE
        ELSE IF remainingForSides <= 0 THEN TRUE
        ELSE 2 * leftWidth > remainingForSides \/ 2 * rightWidth > remainingForSides

\* shouldWrapCenter of topbar.component.ts.
topbarShouldWrapCenter(params) ==
    LET containerWidth == FiniteOrZero(params.containerWidth)
        leftWidth == FiniteOrZero(params.leftWidth)
        rightWidth == FiniteOrZero(params.rightWidth)
        centerContentWidth == FiniteOrZero(params.centerContentWidth)
        gap == FiniteOrZero(params.gap)
    IN  IF containerWidth <= 0 \/ centerContentWidth <= 0 THEN FALSE
        ELSE LET remainingForSides == containerWidth - centerContentWidth - 2 * gap
             IN  IF remainingForSides <= 0 THEN TRUE
                 ELSE 2 * leftWidth > remainingForSides
                      \/ 2 * rightWidth > remainingForSides

\* shouldWrapCenter as exported beside the first version of the designer
\* header (LdsDesignerHeaderComponent), in the same file.
shouldWrapCenterFirstCopy(params) ==
    LET containerWidth == FiniteOrZero(params.containerWidth)
        leftWidth == FiniteOrZero(params.leftWidth)
        rightWidth == FiniteOrZero(params.rightWidth)
        centerContentWidth == FiniteOrZero(params.centerContentWidth)
        gap == FiniteOrZero(params.gap)
    IN  IF containerWidth <= 0 \/ centerContentWidth <= 0 THEN FALSE
        ELSE LET remainingForSides == containerWidth - centerContentWidth - 2 * gap
             IN  IF remainingForSides <= 0 THEN TRUE
                 ELSE 2 * leftWidth > remainingForSides
                      \/ 2 * rightWidth > remainingForSides

(***************************************************************************)
(* Resolved style values and DOM nodes.                                    *)
(* A resolved CSS length is "<n>px", "auto", "normal" or the empty string. *)
(* An absent node (querySelector returned null) has present = FALSE.       *)
(***************************************************************************)
Px(n) == [css |-> "px", val |-> n]
CssAuto == [css |-> "auto", val |-> 0]
CssNormal == [css |-> "normal", val |-> 0]
CssEmpty == [css |-> "", val |-> 0]

\* Number.parseFloat of a resolved style value.
parseFloat(value) == IF value.css = "px" THEN Fin(value.val) ELSE NaN

\* Number.parseFloat(a) || Number.parseFloat(b) || fallback
parseFloatOr(a, b, fallback) ==
    IF Truthy(parseFloat(a)) THEN parseFloat(a).val
    ELSE IF Truthy(parseFloat(b)) THEN parseFloat(b).val
    ELSE fallback

\* Number.parseFloat(a) || 0
parseFloatOrZero(a) == IF Truthy(parseFloat(a)) THEN parseFloat(a).val ELSE 0

Undefined == [defined |-> FALSE, val |-> 0]
Defined(n) == [defined |-> TRUE, val |-> n]

getPxNumber(value) ==
    IF value.css = "" THEN Undefined
    ELSE IF value.css = "auto" THEN Undefined
    ELSE IF isFinite(parseFloat(value)) THEN Defined(parseFloat(value).val)
    ELSE Undefined

\* Mutant: a || b, which also passes over a defined 0.
CoalesceFalsy(a, b) == IF a.defined /\ a.val # 0 THEN a.val ELSE b

\* a ?? b
Coalesce(a, b) == IF a.defined THEN a.val ELSE b

Max(a, b) == IF a >= b THEN a ELSE b

\* One iteration of the loop over the children.
childMinWidth(child) ==
    LET minWidth == Coalesce(getPxNumber(child.minWidth), child.width)
        marginLeft == Coalesce(getPxNumber(child.marginLeft), 0)
        marginRight == Coalesce(getPxNumber(child.marginRight), 0)
    IN  Max(0, minWidth) + Max(0, marginLeft) + Max(0, marginRight)

RECURSIVE sumChildren(_)
sumChildren(children) ==
    IF children = << >> THEN 0
    ELSE childMinWidth(Head(children)) + sumChildren(Tail(children))

measureMinWidthOfFlexRow(containerEl) ==
    LET gap == Coalesce(getPxNumber(containerEl.columnGap),
                 Coalesce(getPxNumber(containerEl.gap),
                   Coalesce(getPxNumber(containerEl.rowGap), 0)))
        children == containerEl.children
    IN  IF Len(children) = 0 THEN 0
        ELSE sumChildren(children) + gap * (Len(children) - 1)

getGapPx(el) == parseFloatOr(el.columnGap, el.gap, 0)

\* Mutant: the section gap is added whenever either sub-part exists.
measureFixedPlusFlexibleWidthGapAlways(sectionEl, fixedEl, flexibleEl) ==
    LET fixedWidth == IF fixedEl.present THEN fixedEl.scrollWidth ELSE 0
        flexibleWidth == IF flexibleEl.present THEN measureMinWidthOfFlexRow(flexibleEl) ELSE 0
        gap == IF fixedEl.present \/ flexibleEl.present THEN getGapPx(sectionEl) ELSE 0
    IN  fixedWidth + gap + flexibleWidth

measureFixedPlusFlexibleWidth(sectionEl, fixedEl, flexibleEl) ==
    LET fixedWidth == IF fixedEl.present THEN fixedEl.scrollWidth ELSE 0
        flexibleWidth == IF flexibleEl.present THEN measureMinWidthOfFlexRow(flexibleEl) ELSE 0
        gap == IF fixedEl.present /\ flexibleEl.present THEN getGapPx(sectionEl) ELSE 0
    IN  fixedWidth + gap + flexibleWidth

\* Gap used when the container resolves neither column-gap nor gap.
DefaultGap == 8

(***************************************************************************)
(* The geometry one pass reads, per component.                             *)
(***************************************************************************)
containerWidthOf(containerEl) ==
    Max(0, containerEl.width - parseFloatOrZero(containerEl.paddingLeft)
                             - parseFloatOrZero(containerEl.paddingRight))

\* Mutant: a resolved gap of 0 is kept (?? in place of ||).
containerGapOfKeepsZero(containerEl) ==
    Coalesce(getPxNumber(containerEl.columnGap),
      Coalesce(getPxNumber(containerEl.gap), DefaultGap))

containerGapOf(containerEl) == parseFloatOr(containerEl.columnGap, containerEl.gap, DefaultGap)

\* Mutant: the gap is subtracted only together with a back column.
designerSnapshotGapWithBack(d) ==
    LET containerWidth == containerWidthOf(d.container)
        gap == containerGapOf(d.container)
    IN  [containerWidth |-> Fin(IF d.back.present
                                THEN Max(0, containerWidth - d.back.width - gap)
                                ELSE containerWidth),
         leftWidth |-> Fin(measureFixedPlusFlexibleWidth(d.left, d.left.fixed, d.left.flexible)),
         rightWidth |-> Fin(measureFixedPlusFlexibleWidth(d.right, d.right.fixed,
                                                          d.right.flexible)),
         centerContentWidth |-> Fin(d.centerInner.scrollWidth),
         gap |-> Fin(gap)]

\* Mutant: the content-box width is handed to shouldWrapCenter as it is,
\* without the back column and its gap.
designerSnapshotFullWidth(d) ==
    [containerWidth |-> Fin(containerWidthOf(d.container)),
     leftWidth |-> Fin(measureFixedPlusFlexibleWidth(d.left, d.left.fixed, d.left.flexible)),
     rightWidth |-> Fin(measureFixedPlusFlexibleWidth(d.right, d.right.fixed, d.right.flexible)),
     centerContentWidth |-> Fin(d.centerInner.scrollWidth),
     gap |-> Fin(containerGapOf(d.container))]

\* LdsDesignerHeader.updateCenterWrapState, from the read of scrollWidth to
\* the argument of shouldWrapCenter.
designerSnapshot(d) ==
    LET centerContentWidth == d.centerInner.scrollWidth
        containerWidth == containerWidthOf(d.container)
        gap == containerGapOf(d.container)
        backWidth == IF d.back.present THEN d.back.width ELSE 0
        availableForLeftCenterRight == Max(0, containerWidth - backWidth - gap)
        leftWidth == measureFixedPlusFlexibleWidth(d.left, d.left.fixed, d.left.flexible)
        rightWidth == measureFixedPlusFlexibleWidth(d.right, d.right.fixed, d.right.flexible)
    IN  [containerWidth |-> Fin(availableForLeftCenterRight),
         leftWidth |-> Fin(leftWidth),
         rightWidth |-> Fin(rightWidth),
         centerContentWidth |-> Fin(centerContentWidth),
         gap |-> Fin(gap)]

\* Mutant: the topbar's left width is always the rendered width of the left
\* section.
topbarSnapshotRenderedLeft(d) ==
    [containerWidth |-> Fin(containerWidthOf(d.container)),
     leftWidth |-> Fin(d.left.width),
     rightWidth |-> Fin(measureMinWidthOfFlexRow(d.right)),
     centerContentWidth |-> Fin(d.centerInner.scrollWidth),
     gap |-> Fin(containerGapOf(d.container))]

\* TopbarComponent.updateCenterWrapState, likewise.  In the left section
\* `fixed` is .topbar__back-title and `flexible` is .topbar__left-content.
topbarSnapshot(d) ==
    LET rightWidth == measureMinWidthOfFlexRow(d.right)
        centerContentWidth == d.centerInner.scrollWidth
        containerWidth == containerWidthOf(d.container)
        gap == containerGapOf(d.container)
        backTitleEl == d.left.fixed
        leftContentEl == d.left.flexible
        leftGap == parseFloatOr(d.left.columnGap, d.left.gap, DefaultGap)
        leftContentMinWidth ==
            IF leftContentEl.present THEN measureMinWidthOfFlexRow(leftContentEl) ELSE 0
        leftWidth ==
            IF backTitleEl.present
            THEN backTitleEl.scrollWidth
                 + (IF leftContentEl.present THEN leftGap ELSE 0)
                 + leftContentMinWidth
            ELSE d.left.width
    IN  [containerWidth |-> Fin(containerWidth),
         leftWidth |-> Fin(leftWidth),
         rightWidth |-> Fin(rightWidth),
         centerContentWidth |-> Fin(centerContentWidth),
         gap |-> Fin(gap)]

\* LdsDesignerHeader.updateCenterContentPresence: the new hasCenterContent.
\* centerSectionRef is a static view child, so centerEl is always there.
centerContentPresence(d) ==
    IF d.centerInner.present THEN d.centerInner.childCount > 0 ELSE FALSE

(***************************************************************************)
(* The DOM geometries of the model.                                        *)
(***************************************************************************)
NoFixed == [present |-> FALSE, scrollWidth |-> 0]
Fixed(w) == [present |-> TRUE, scrollWidth |-> w]
NoFlexRow == [present |-> FALSE, columnGap |-> CssNormal, gap |-> CssNormal,
              rowGap |-> CssNormal, children |-> << >>]
FlexRow(g, kids) == [present |-> TRUE, columnGap |-> g, gap |-> g,
                     rowGap |-> g, children |-> kids]
Child(minWidth, width) == [minWidth |-> minWidth, width |-> width,
                           marginLeft |-> Px(0), marginRight |-> Px(0)]
Section(width, fixed, flexible, kids) ==
    [width |-> width, columnGap |-> Px(8), gap |-> Px(8), rowGap |-> Px(8),
     children |-> kids, fixed |-> fixed, flexible |-> flexible]

\* A header: a title of 160 and a chip of minimum 40 on the left, actions of
\* 120 on the right, center content of intrinsic width 200 when projected.
MkDom(width, centerKids, hasBack) ==
    [container |-> [width |-> width, paddingLeft |-> Px(16), paddingRight |-> Px(16),
                    columnGap |-> Px(8), gap |-> Px(8)],
     back |-> [present |-> hasBack, width |-> IF hasBack THEN 40 ELSE 0],
     left |-> Section(208, Fixed(160), FlexRow(Px(4), << Child(Px(40), 90) >>),
                      << Child(CssAuto, 160), Child(CssAuto, 40) >>),
     right |-> Section(120, Fixed(120), NoFlexRow, << Child(CssAuto, 120) >>),
     centerInner |-> [present |-> TRUE, childCount |-> centerKids,
                      scrollWidth |-> IF centerKids > 0 THEN 200 ELSE 0],
     centerContent |-> centerKids > 0]

ContainerWidths == {0, 400, 1200}
Doms == {MkDom(w, k, b) : w \in ContainerWidths, k \in {0, 1}, b \in BOOLEAN}

\* The viewport widths of the resize scenario.
ResizeWidths == {400, 1200}

NoSnapshot == [containerWidth |-> Fin(0), leftWidth |-> Fin(0), rightWidth |-> Fin(0),
               centerContentWidth |-> Fin(0), gap |-> Fin(0)]

(***************************************************************************)
(* State.                                                                  *)
(***************************************************************************)
VARIABLES
    variant,                \* "designer" (LdsDesignerHeader) or "topbar"
    hasResizeObserver,      \* typeof ResizeObserver !== 'undefined'
    phase,                  \* "created", "mounted", "destroyed"
    observing,              \* resizeObserver exists and is connected
    threw,                  \* a life-cycle hook raised an exception
    layoutUpdateScheduled,  \* the field of that name
    tasks,                  \* setTimeout(0) callbacks queued and not yet run
    hasCenterContent,       \* the field of that name (designer)
    wrapped,                \* the center-wrap class is on the container
    measuring,              \* the measuring class is on the container
    pc,                     \* position inside the running timer callback
    dom,                    \* the geometry the DOM currently has
    snap,                   \* the snapshot read by the pass (its locals)
    shouldWrap,             \* the local of that name
    lastPass,               \* "none", "empty" or "measured": how the last pass ended
    wrappedBefore,          \* history: wrapped when the last pass began
    notified,               \* history: scheduleLayoutCheck calls of the current burst
    bursts,                 \* history: Idle -> PendingRecompute transitions
    passes,                 \* history: passes completed
    hist,                   \* history: the measured passes, in order
    args,                   \* the snapshot given to the pure function
    applied,                \* the pure function has been applied to args
    result                  \* its result

ctlVars == <<variant, hasResizeObserver, phase, observing, threw, layoutUpdateScheduled,
             tasks, hasCenterContent, wrapped, measuring, pc, dom, snap,
             shouldWrap, lastPass, wrappedBefore, notified, bursts, passes, hist>>
pureVars == <<args, applied, result>>
vars == <<ctlVars, pureVars>>

passVars == <<wrapped, measuring, snap, shouldWrap, lastPass, wrappedBefore, passes, hist>>
schedVars == <<layoutUpdateScheduled, tasks, notified, bursts>>
envVars == <<variant, hasResizeObserver, dom>>

Variants == {"designer", "topbar"}

\* The arguments of the pure function while the controller runs.
InitPure ==
    /\ args = NoSnapshot
    /\ applied = FALSE
    /\ result = FALSE

\* The instance after construction, over the geometries in `doms`.
InitCtl(doms) ==
    /\ variant \in Variants
    /\ hasResizeObserver \in BOOLEAN
    /\ phase = "created"
    /\ observing = FALSE
    /\ threw = FALSE
    /\ layoutUpdateScheduled = FALSE
    /\ tasks = 0
    /\ hasCenterContent = FALSE
    /\ wrapped = FALSE
    /\ measuring = FALSE
    /\ pc = "idle"
    /\ dom \in doms
    /\ snap = NoSnapshot
    /\ shouldWrap = FALSE
    /\ lastPass = "none"
    /\ wrappedBefore = FALSE
    /\ notified = 0
    /\ bursts = 0
    /\ passes = 0
    /\ hist = << >>

Init == InitCtl(Doms) /\ InitPure

(***************************************************************************)
(* The scheduler.                                                          *)
(***************************************************************************)
\* Mutant: the early return on layoutUpdateScheduled is missing.
ScheduleLayoutCheckUnguarded ==
    /\ layoutUpdateScheduled' = TRUE
    /\ tasks' = tasks + 1
    /\ notified' = IF layoutUpdateScheduled THEN notified + 1 ELSE 1
    /\ bursts' = IF layoutUpdateScheduled THEN bursts ELSE bursts + 1

\* Mutant: the flag is never set, so every call queues a callback.
ScheduleLayoutCheckFlagNotSet ==
    /\ layoutUpdateScheduled' = layoutUpdateScheduled
    /\ tasks' = IF layoutUpdateScheduled THEN tasks ELSE tasks + 1
    /\ notified' = IF layoutUpdateScheduled THEN notified + 1 ELSE 1
    /\ bursts' = IF layoutUpdateScheduled THEN bursts ELSE bursts + 1

\* scheduleLayoutCheck: returns at once when a task is pending, else sets the
\* flag and queues one setTimeout(0) callback.
ScheduleLayoutCheck ==
    /\ layoutUpdateScheduled' = TRUE
    /\ tasks' = IF layoutUpdateScheduled THEN tasks ELSE tasks + 1
    /\ notified' = IF layoutUpdateScheduled THEN notified + 1 ELSE 1
    /\ bursts' = IF layoutUpdateScheduled THEN bursts ELSE bursts + 1

\* The model counts at most MaxBurst calls in a burst and MaxPasses bursts.
CanNotify ==
    IF layoutUpdateScheduled THEN notified < MaxBurst ELSE bursts < MaxPasses

(***************************************************************************)
(* Life cycle and notifications.                                           *)
(***************************************************************************)
\* Mutant: ngAfterViewInit without the typeof test; new ResizeObserver raises
\* a ReferenceError on a platform without it, before anything is scheduled.
MountNoFeatureTest ==
    /\ phase = "created"
    /\ phase' = "mounted"
    /\ hasCenterContent' = IF variant = "designer" THEN centerContentPresence(dom)
                           ELSE hasCenterContent
    /\ observing' = hasResizeObserver
    /\ IF hasResizeObserver
       THEN threw' = threw /\ ScheduleLayoutCheck
       ELSE threw' = TRUE /\ UNCHANGED schedVars
    /\ UNCHANGED <<pc, passVars, envVars, pureVars>>

\* Mutant: ngAfterViewInit whose observer branch leaves the first pass to the
\* observer's initial callback and schedules nothing itself.
MountNoSchedule ==
    /\ phase = "created"
    /\ phase' = "mounted"
    /\ hasCenterContent' = IF variant = "designer" THEN centerContentPresence(dom)
                           ELSE hasCenterContent
    /\ observing' = hasResizeObserver
    /\ threw' = threw
    /\ IF hasResizeObserver THEN UNCHANGED schedVars ELSE ScheduleLayoutCheck
    /\ UNCHANGED <<pc, passVars, envVars, pureVars>>

\* ngAfterViewInit: the presence check (designer header), then either the
\* degraded branch (typeof ResizeObserver === 'undefined': schedule, return)
\* or the observer branch (new ResizeObserver, four observe calls, schedule).
Mount ==
    /\ phase = "created"
    /\ phase' = "mounted"
    /\ hasCenterContent' = IF variant = "designer" THEN centerContentPresence(dom)
                           ELSE hasCenterContent
    /\ observing' = hasResizeObserver
    /\ threw' = threw
    /\ ScheduleLayoutCheck
    /\ UNCHANGED <<pc, passVars, envVars, pureVars>>

\* Mutant: ngOnDestroy that does not disconnect the observer.
DestroyNoDisconnect ==
    /\ phase = "mounted"
    /\ pc = "idle"
    /\ phase' = "destroyed"
    /\ observing' = observing
    /\ threw' = threw
    /\ UNCHANGED <<hasCenterContent, pc, passVars, schedVars, envVars, pureVars>>

\* ngOnDestroy: this.resizeObserver?.disconnect().  The host listener goes
\* with the component; the queued timer callback stays queued.
Destroy ==
    /\ phase = "mounted"
    /\ pc = "idle"
    /\ phase' = "destroyed"
    /\ observing' = FALSE
    /\ threw' = threw
    /\ UNCHANGED <<hasCenterContent, pc, passVars, schedVars, envVars, pureVars>>

\* The ResizeObserver callback, for a size change of the container or of one
\* of the three sections.
ObserverCallback ==
    /\ observing
    /\ pc = "idle"
    /\ CanNotify
    /\ \E target \in {"container", "left", "center", "right"} : ScheduleLayoutCheck
    /\ UNCHANGED <<phase, observing, threw, hasCenterContent, pc, passVars, envVars, pureVars>>

\* Mutant: onWindowResize that calls updateCenterWrapState() itself instead
\* of scheduleLayoutCheck().
WindowResizeSynchronous ==
    /\ phase = "mounted"
    /\ pc = "idle"
    /\ CanNotify
    /\ snap' = IF variant = "designer" THEN designerSnapshot(dom) ELSE topbarSnapshot(dom)
    /\ shouldWrap' = IF variant = "designer" THEN shouldWrapCenter(snap')
                     ELSE topbarShouldWrapCenter(snap')
    /\ wrapped' = shouldWrap'
    /\ UNCHANGED <<phase, observing, threw, hasCenterContent, pc, measuring, lastPass,
                   wrappedBefore, passes, hist, schedVars, envVars, pureVars>>

\* @HostListener('window:resize') onWindowResize.
WindowResize ==
    /\ phase = "mounted"
    /\ pc = "idle"
    /\ CanNotify
    /\ ScheduleLayoutCheck
    /\ UNCHANGED <<phase, observing, threw, hasCenterContent, pc, passVars, envVars, pureVars>>

\* The environment: the page lays out anew between two tasks.
SetGeometryIn(doms) ==
    /\ pc = "idle"
    /\ dom' \in doms \ {dom}
    /\ UNCHANGED <<variant, hasResizeObserver, phase, observing, threw, hasCenterContent, pc,
                   passVars, schedVars, pureVars>>

SetGeometry == SetGeometryIn(Doms)

\* The viewport is resized: only the container's width changes.
Resize ==
    /\ pc = "idle"
    /\ \E w \in ResizeWidths \ {dom.container.width} :
          dom' = [dom EXCEPT !.container.width = w]
    /\ UNCHANGED <<variant, hasResizeObserver, phase, observing, threw, hasCenterContent, pc,
                   passVars, schedVars, pureVars>>

(***************************************************************************)
(* The timer callback, statement by statement.  JavaScript runs a task to  *)
(* completion: while pc # "idle" no other handler is enabled.              *)
(***************************************************************************)
\* Whether the pass finds center content: the hasCenterContent field in the
\* designer header, the projected centerContent template in the topbar.
CenterPresent == IF variant = "designer" THEN hasCenterContent ELSE dom.centerContent

\* Mutant: the callback does not clear layoutUpdateScheduled.
TimerFiresFlagKept ==
    /\ pc = "idle"
    /\ tasks > 0
    /\ tasks' = tasks - 1
    /\ layoutUpdateScheduled' = layoutUpdateScheduled
    /\ pc' = IF variant = "designer" THEN "timer" ELSE "pass"
    /\ wrappedBefore' = wrapped
    /\ UNCHANGED <<phase, observing, threw, hasCenterContent, wrapped, measuring, snap, shouldWrap,
                   lastPass, passes, hist, notified, bursts, envVars, pureVars>>

\* The callback starts: this.layoutUpdateScheduled = false.
TimerFires ==
    /\ pc = "idle"
    /\ tasks > 0
    /\ tasks' = tasks - 1
    /\ layoutUpdateScheduled' = FALSE
    /\ pc' = IF variant = "designer" THEN "timer" ELSE "pass"
    /\ wrappedBefore' = wrapped
    /\ UNCHANGED <<phase, observing, threw, hasCenterContent, wrapped, measuring, snap, shouldWrap,
                   lastPass, passes, hist, notified, bursts, envVars, pureVars>>

\* Mutant: the callback goes to the pass with the hasCenterContent of
\* ngAfterViewInit.
UpdateCenterContentPresenceSkipped ==
    /\ pc = "timer"
    /\ hasCenterContent' = hasCenterContent
    /\ pc' = "pass"
    /\ UNCHANGED <<phase, observing, threw, passVars, schedVars, envVars, pureVars>>

\* Designer header only: this.updateCenterContentPresence().
UpdateCenterContentPresence ==
    /\ pc = "timer"
    /\ hasCenterContent' = centerContentPresence(dom)
    /\ pc' = "pass"
    /\ UNCHANGED <<phase, observing, threw, passVars, schedVars, envVars, pureVars>>

\* Mutant: the branch without center content returns without touching the
\* wrap class.
PassEmptyKeepWrap ==
    /\ pc = "pass"
    /\ ~CenterPresent
    /\ wrapped' = wrapped
    /\ pc' = "emptyWrapRemoved"
    /\ UNCHANGED <<phase, observing, threw, hasCenterContent, measuring, snap, shouldWrap, lastPass,
                   wrappedBefore, passes, hist, schedVars, envVars, pureVars>>

\* updateCenterWrapState without center content: classList.remove(wrap).
PassEmptyRemoveWrap ==
    /\ pc = "pass"
    /\ ~CenterPresent
    /\ wrapped' = FALSE
    /\ pc' = "emptyWrapRemoved"
    /\ UNCHANGED <<phase, observing, threw, hasCenterContent, measuring, snap, shouldWrap, lastPass,
                   wrappedBefore, passes, hist, schedVars, envVars, pureVars>>

\* ... classList.remove(measuring); return.
PassEmptyRemoveMeasuring ==
    /\ pc = "emptyWrapRemoved"
    /\ measuring' = FALSE
    /\ lastPass' = "empty"
    /\ passes' = passes + 1
    /\ pc' = "idle"
    /\ UNCHANGED <<phase, observing, threw, hasCenterContent, wrapped, snap, shouldWrap,
                   wrappedBefore, hist, schedVars, envVars, pureVars>>

\* Mutant: the pass measures without first removing the wrap class.
PassRemoveWrapSkipped ==
    /\ pc = "pass"
    /\ CenterPresent
    /\ wrapped' = wrapped
    /\ pc' = "wrapRemoved"
    /\ UNCHANGED <<phase, observing, threw, hasCenterContent, measuring, snap, shouldWrap, lastPass,
                   wrappedBefore, passes, hist, schedVars, envVars, pureVars>>

\* updateCenterWrapState with center content: classList.remove(wrap).
PassRemoveWrap ==
    /\ pc = "pass"
    /\ CenterPresent
    /\ wrapped' = FALSE
    /\ pc' = "wrapRemoved"
    /\ UNCHANGED <<phase, observing, threw, hasCenterContent, measuring, snap, shouldWrap, lastPass,
                   wrappedBefore, passes, hist, schedVars, envVars, pureVars>>

\* Mutant: the pass marks the scheduler pending while it adds the class.
PassAddMeasuringSetsPending ==
    /\ pc = "wrapRemoved"
    /\ measuring' = TRUE
    /\ layoutUpdateScheduled' = TRUE
    /\ pc' = "measuring"
    /\ UNCHANGED <<phase, observing, threw, hasCenterContent, wrapped, snap, shouldWrap, lastPass,
                   wrappedBefore, passes, hist, tasks, notified, bursts, envVars, pureVars>>

\* classList.add(measuring).
PassAddMeasuring ==
    /\ pc = "wrapRemoved"
    /\ measuring' = TRUE
    /\ pc' = "measuring"
    /\ UNCHANGED <<phase, observing, threw, hasCenterContent, wrapped, snap, shouldWrap, lastPass,
                   wrappedBefore, passes, hist, schedVars, envVars, pureVars>>

\* Mutant: the snapshot of the previous measured pass is reused.
PassMeasureCached ==
    /\ pc = "measuring"
    /\ snap' = IF lastPass = "measured" THEN snap
               ELSE IF variant = "designer" THEN designerSnapshot(dom) ELSE topbarSnapshot(dom)
    /\ shouldWrap' = IF variant = "designer" THEN shouldWrapCenter(snap')
                     ELSE topbarShouldWrapCenter(snap')
    /\ pc' = "measured"
    /\ UNCHANGED <<phase, observing, threw, hasCenterContent, wrapped, measuring, lastPass,
                   wrappedBefore, passes, hist, schedVars, envVars, pureVars>>

\* Mutant: the optional nodes are dereferenced without a null test, so a
\* pass of the designer header over a DOM that lacks one of them raises a
\* TypeError and stops where it is.
PassMeasureNoNullCheck ==
    /\ pc = "measuring"
    /\ IF variant = "designer"
          /\ ~(dom.back.present /\ dom.left.fixed.present /\ dom.left.flexible.present
                /\ dom.right.fixed.present /\ dom.right.flexible.present)
       THEN /\ pc' = "idle"
            /\ lastPass' = "aborted"
            /\ UNCHANGED <<snap, shouldWrap>>
       ELSE /\ snap' = IF variant = "designer" THEN designerSnapshot(dom)
                       ELSE topbarSnapshot(dom)
            /\ shouldWrap' = IF variant = "designer" THEN shouldWrapCenter(snap')
                             ELSE topbarShouldWrapCenter(snap')
            /\ pc' = "measured"
            /\ lastPass' = lastPass
    /\ UNCHANGED <<phase, observing, threw, hasCenterContent, wrapped, measuring,
                   wrappedBefore, passes, hist, schedVars, envVars, pureVars>>

\* The geometry reads and the call of shouldWrapCenter.
PassMeasure ==
    /\ pc = "measuring"
    /\ snap' = IF variant = "designer" THEN designerSnapshot(dom) ELSE topbarSnapshot(dom)
    /\ shouldWrap' = IF variant = "designer" THEN shouldWrapCenter(snap')
                     ELSE topbarShouldWrapCenter(snap')
    /\ pc' = "measured"
    /\ UNCHANGED <<phase, observing, threw, hasCenterContent, wrapped, measuring, lastPass,
                   wrappedBefore, passes, hist, schedVars, envVars, pureVars>>

\* Mutant: the measuring class is left on after the decision.
PassRemoveMeasuringSkipped ==
    /\ pc = "measured"
    /\ measuring' = measuring
    /\ pc' = "measuringRemoved"
    /\ UNCHANGED <<phase, observing, threw, hasCenterContent, wrapped, snap, shouldWrap, lastPass,
                   wrappedBefore, passes, hist, schedVars, envVars, pureVars>>

\* classList.remove(measuring).
PassRemoveMeasuring ==
    /\ pc = "measured"
    /\ measuring' = FALSE
    /\ pc' = "measuringRemoved"
    /\ UNCHANGED <<phase, observing, threw, hasCenterContent, wrapped, snap, shouldWrap, lastPass,
                   wrappedBefore, passes, hist, schedVars, envVars, pureVars>>

\* What the history keeps of a measured pass: the geometry it read and the
\* controller state it left.
PassRecord ==
    [dom |-> dom, wrapped |-> wrapped', measuring |-> measuring,
     hasCenterContent |-> hasCenterContent,
     layoutUpdateScheduled |-> layoutUpdateScheduled, tasks |-> tasks,
     snap |-> snap]

\* Mutant: the class is only ever added (toggle(wrap, before || shouldWrap)).
PassToggleWrapSticky(keep) ==
    /\ pc = "measuringRemoved"
    /\ wrapped' = (wrappedBefore \/ shouldWrap)
    /\ lastPass' = "measured"
    /\ passes' = passes + 1
    /\ hist' = IF Len(hist) < keep THEN Append(hist, PassRecord) ELSE hist
    /\ pc' = "idle"
    /\ UNCHANGED <<phase, observing, threw, hasCenterContent, measuring, snap, shouldWrap,
                   wrappedBefore, schedVars, envVars, pureVars>>

\* Mutant: a pass that began wrapped never wraps again.
PassToggleWrapAlternating(keep) ==
    /\ pc = "measuringRemoved"
    /\ wrapped' = (shouldWrap /\ ~wrappedBefore)
    /\ lastPass' = "measured"
    /\ passes' = passes + 1
    /\ hist' = IF Len(hist) < keep THEN Append(hist, PassRecord) ELSE hist
    /\ pc' = "idle"
    /\ UNCHANGED <<phase, observing, threw, hasCenterContent, measuring, snap, shouldWrap,
                   wrappedBefore, schedVars, envVars, pureVars>>

\* classList.toggle(wrap, shouldWrap); the history keeps the first `keep`
\* measured passes (none in Spec, all of them in SpecResize).
PassToggleWrapKeeping(keep) ==
    /\ pc = "measuringRemoved"
    /\ wrapped' = shouldWrap
    /\ lastPass' = "measured"
    /\ passes' = passes + 1
    /\ hist' = IF Len(hist) < keep THEN Append(hist, PassRecord) ELSE hist
    /\ pc' = "idle"
    /\ UNCHANGED <<phase, observing, threw, hasCenterContent, measuring, snap, shouldWrap,
                   wrappedBefore, schedVars, envVars, pureVars>>

PassToggleWrap == PassToggleWrapKeeping(0)
PassToggleWrapRecorded == PassToggleWrapKeeping(MaxPasses)

(***************************************************************************)
(* Specification of one header instance.                                   *)
(***************************************************************************)
Next ==
    \/ Mount
    \/ Destroy
    \/ ObserverCallback
    \/ WindowResize
    \/ SetGeometry
    \/ TimerFires
    \/ UpdateCenterContentPresence
    \/ PassEmptyRemoveWrap
    \/ PassEmptyRemoveMeasuring
    \/ PassRemoveWrap
    \/ PassAddMeasuring
    \/ PassMeasure
    \/ PassRemoveMeasuring
    \/ PassToggleWrap

Spec == Init /\ [][Next]_vars

(***************************************************************************)
(* Specification of the resize scenario: the same instance, whose          *)
(* environment only resizes the viewport and whose measured passes are     *)
(* recorded.                                                               *)
(***************************************************************************)
ResizeInitDoms == {MkDom(w, k, b) : w \in ResizeWidths, k \in {0, 1}, b \in BOOLEAN}

InitResize == InitCtl(ResizeInitDoms) /\ InitPure

NextResize ==
    \/ Mount
    \/ Destroy
    \/ ObserverCallback
    \/ WindowResize
    \/ Resize
    \/ TimerFires
    \/ UpdateCenterContentPresence
    \/ PassEmptyRemoveWrap
    \/ PassEmptyRemoveMeasuring
    \/ PassRemoveWrap
    \/ PassAddMeasuring
    \/ PassMeasure
    \/ PassRemoveMeasuring
    \/ PassToggleWrapRecorded

SpecResize == InitResize /\ [][NextResize]_vars

(***************************************************************************)
(* Specification of the pure decision function: every snapshot over the    *)
(* bounded numbers, and one application.                                   *)
(***************************************************************************)
PureNumbers == {Fin(n) : n \in (-1)..MaxW} \cup NonFinite

Snapshots == [containerWidth : PureNumbers, leftWidth : PureNumbers,
              rightWidth : PureNumbers, centerContentWidth : PureNumbers,
              gap : PureNumbers]

InitDecision ==
    /\ InitCtl({MkDom(1200, 1, TRUE)})
    /\ variant = "designer"
    /\ hasResizeObserver = TRUE
    /\ args \in Snapshots
    /\ applied = FALSE
    /\ result = FALSE

\* result = shouldWrapCenter(args)
ApplyShouldWrapCenter ==
    /\ ~applied
    /\ applied' = TRUE
    /\ result' = shouldWrapCenter(args)
    /\ UNCHANGED <<args, ctlVars>>

NextDecision == ApplyShouldWrapCenter

SpecDecision == InitDecision /\ [][NextDecision]_vars

(***************************************************************************)
(* Properties of the scheduler and the pass (Spec, SpecResize).            *)
(***************************************************************************)
\* C1 (as claimed): once the instance is destroyed, no step changes its
\* wrapped or measuring flag; a timer callback queued before ngOnDestroy is a
\* no-op on the layout state.
C1_NoWriteAfterDestroy ==
    [][phase = "destroyed" => (wrapped' = wrapped /\ measuring' = measuring)]_vars

\* The pass running at the moment, if any.
PassInProgress == IF pc = "idle" THEN 0 ELSE 1

\* C2: every burst of scheduleLayoutCheck calls, whatever its size, accounts
\* for exactly one pass: the passes completed, the pass in progress and the
\* callback still queued add up to the number of bursts.
C2_OnePassPerBurst == passes + PassInProgress + tasks = bursts

\* A second burst, made of two or more notifications, has been served whole
\* by its one pass.
C2_Witness ==
    /\ bursts = 2
    /\ notified >= 2
    /\ passes = 2
    /\ tasks = 0
    /\ pc = "idle"

\* C3: at most one timer callback of the instance is queued, and no step
\* taken while layoutUpdateScheduled is set queues another.
C3_AtMostOneTask ==
    /\ [](tasks <= 1)
    /\ [][layoutUpdateScheduled => tasks' <= tasks]_vars

\* A notification arrived while layoutUpdateScheduled was set, and still one
\* callback is queued.
C3_Witness ==
    /\ layoutUpdateScheduled
    /\ notified >= 2
    /\ tasks = 1

\* The decision function the variant's pass calls.
Decide(s) == IF variant = "designer" THEN shouldWrapCenter(s) ELSE topbarShouldWrapCenter(s)

\* C4: after a completed pass over center content, measuring is off and
\* wrapped is the decision on the snapshot that pass measured.
C4_PassAppliesDecision ==
    (pc = "idle" /\ lastPass = "measured") => (~measuring /\ wrapped = Decide(snap))

\* A pass that began wrapped ended unwrapped.
C4_Witness ==
    /\ pc = "idle"
    /\ lastPass = "measured"
    /\ wrappedBefore
    /\ ~wrapped

\* The controller state a measured pass leaves.
StateAfter(h) == <<h.wrapped, h.measuring, h.hasCenterContent,
                   h.layoutUpdateScheduled, h.tasks>>

\* C5: with constant region widths, a pass at viewport width 1200 leaves the
\* header unwrapped and a pass at 400 leaves it wrapped, whatever came before,
\* and two passes over the same geometry leave the same controller state.
C5_NoHysteresis ==
    \A i \in 1..Len(hist) :
        /\ hist[i].dom.container.width = 1200 => ~hist[i].wrapped
        /\ hist[i].dom.container.width = 400 => hist[i].wrapped
        /\ \A j \in 1..Len(hist) :
              hist[i].dom = hist[j].dom => StateAfter(hist[i]) = StateAfter(hist[j])

\* Passes at 1200, 400 and 1200 have run, in this order.
C5_Witness ==
    /\ Len(hist) >= 3
    /\ hist[1].dom.container.width = 1200
    /\ hist[2].dom.container.width = 400
    /\ hist[3].dom.container.width = 1200
    /\ hist[3].dom = hist[1].dom

(***************************************************************************)
(* Properties of the decision function (SpecDecision).                     *)
(***************************************************************************)
\* The width a snapshot field stands for: its value, and 0 when not finite.
Width(x) == IF x.kind = "finite" THEN x.val ELSE 0

\* containerWidth - centerContentWidth - 2 * gap of the applied snapshot.
Remaining == Width(args.containerWidth) - Width(args.centerContentWidth)
             - 2 * Width(args.gap)

\* C6: a snapshot whose container width or center content width is <= 0
\* never wraps, whatever the side widths and the gap.
C6_DegenerateNeverWraps ==
    (applied /\ (Width(args.containerWidth) <= 0 \/ Width(args.centerContentWidth) <= 0))
        => ~result

\* An empty container with sides and center that would not fit.
C6_Witness ==
    /\ applied
    /\ args.containerWidth = Fin(0)
    /\ args.leftWidth = Fin(1)
    /\ args.centerContentWidth = Fin(1)
    /\ ~result

\* C7: with a positive container and center width, the result is TRUE
\* exactly when nothing remains for the sides or a side exceeds half of what
\* remains.
C7_EqualShareDecision ==
    (applied /\ Width(args.containerWidth) > 0 /\ Width(args.centerContentWidth) > 0)
        => (result <=> \/ Remaining <= 0
                       \/ 2 * Width(args.leftWidth) > Remaining
                       \/ 2 * Width(args.rightWidth) > Remaining)

\* The three widths and the gaps sum under the container, and one side
\* still exceeds its half-share.
C7_Witness ==
    /\ applied
    /\ result
    /\ Width(args.containerWidth) > 0
    /\ Width(args.centerContentWidth) > 0
    /\ Remaining > 0
    /\ Width(args.leftWidth) + Width(args.rightWidth) + Width(args.centerContentWidth)
         + 2 * Width(args.gap) <= Width(args.containerWidth)

\* w < x as JavaScript compares numbers, for a finite x.
JsLess(w, x) ==
    /\ x.kind = "finite"
    /\ \/ w.kind = "finite" /\ w.val < x.val
       \/ w.kind = "-Infinity"

\* C8 (as claimed): a snapshot that wraps still wraps at every smaller
\* container width.
C8_MonotoneAtEveryWidth ==
    (applied /\ result) =>
        \A w \in PureNumbers :
            JsLess(w, args.containerWidth)
                => shouldWrapCenter([args EXCEPT !.containerWidth = w])

\* C8 (amended): a snapshot that wraps still wraps at every smaller positive
\* container width.
C8_MonotoneAtPositiveWidths ==
    (applied /\ result) =>
        \A w \in PureNumbers :
            (JsLess(w, args.containerWidth) /\ JsLess(Fin(0), w))
                => shouldWrapCenter([args EXCEPT !.containerWidth = w])

\* A snapshot wraps because of a side, with a smaller positive width below it.
C8_Witness ==
    /\ applied
    /\ result
    /\ Remaining > 0
    /\ \E w \in PureNumbers : JsLess(w, args.containerWidth) /\ JsLess(Fin(0), w)

\* C9: where something remains for the sides, a side exactly at its
\* half-share does not wrap (the other side fitting), and a side above its
\* half-share does.
C9_TieBreak ==
    (applied /\ Width(args.containerWidth) > 0 /\ Width(args.centerContentWidth) > 0
             /\ Remaining > 0)
        => /\ (2 * Width(args.leftWidth) = Remaining /\ 2 * Width(args.rightWidth) <= Remaining)
                => ~result
           /\ (2 * Width(args.rightWidth) = Remaining /\ 2 * Width(args.leftWidth) <= Remaining)
                => ~result
           /\ 2 * Width(args.leftWidth) > Remaining => result
           /\ 2 * Width(args.rightWidth) > Remaining => result

\* The left side exactly fills its half-share.
C9_Witness ==
    /\ applied
    /\ Width(args.containerWidth) > 0
    /\ Width(args.centerContentWidth) > 0
    /\ Remaining > 0
    /\ 2 * Width(args.leftWidth) = Remaining
    /\ 2 * Width(args.rightWidth) < Remaining
    /\ ~result

SnapshotFields == {"containerWidth", "leftWidth", "rightWidth", "centerContentWidth", "gap"}

\* C10: a field that is NaN, +Infinity or -Infinity gives the result that 0
\* gives in its place, the other fields unchanged.
C10_NonFiniteAsZero ==
    applied =>
        \A f \in SnapshotFields :
            args[f] \in NonFinite => result = shouldWrapCenter([args EXCEPT ![f] = Fin(0)])

\* An infinite left width beside a finite snapshot that fits.
C10_Witness ==
    /\ applied
    /\ args.leftWidth = PosInf
    /\ args.containerWidth = Fin(3)
    /\ args.centerContentWidth = Fin(1)
    /\ args.rightWidth = Fin(1)
    /\ args.gap = Fin(0)
    /\ ~result

(***************************************************************************)
(* Properties of the life cycle and of the deferral (Spec).                *)
(***************************************************************************)
\* A step that is a call of scheduleLayoutCheck.
NotificationStep == notified' # notified \/ bursts' # bursts

\* The snapshot a pass would read from the present geometry.
CurrentSnapshot == IF variant = "designer" THEN designerSnapshot(dom) ELSE topbarSnapshot(dom)

\* C11: a notification runs no pass: it leaves the flag set and at most
\* queues one callback, and changes neither wrapped, measuring nor the pass's
\* locals; these change only inside a running callback, and a callback starts
\* only by taking a queued task, in a step that is not a notification.
C11_PassDeferred ==
    /\ [][NotificationStep =>
            /\ pc = "idle" /\ pc' = "idle"
            /\ layoutUpdateScheduled'
            /\ tasks' \in {tasks, tasks + 1} /\ tasks' >= 1
            /\ passes' = passes
            /\ UNCHANGED <<wrapped, measuring, snap, shouldWrap, lastPass>>]_vars
    /\ [][(wrapped' # wrapped \/ measuring' # measuring \/ snap' # snap
            \/ shouldWrap' # shouldWrap) => pc # "idle"]_vars
    /\ [][(pc = "idle" /\ pc' # "idle") =>
            (tasks > 0 /\ tasks' = tasks - 1 /\ ~NotificationStep)]_vars

\* A notification has been taken after a measured pass while the geometry
\* calls for the other decision, and wrapped still has the old one.
C11_Witness ==
    /\ pc = "idle"
    /\ layoutUpdateScheduled
    /\ tasks = 1
    /\ passes >= 1
    /\ lastPass = "measured"
    /\ CenterPresent
    /\ wrapped # Decide(CurrentSnapshot)

\* C12: a pass that finds no center content ends with wrapped and measuring
\* both off, and none of its steps measures or decides: the snapshot and the
\* decision local are left alone and measuring is never switched on.
C12_EmptyPassClears ==
    /\ []((pc = "idle" /\ lastPass = "empty") => (~wrapped /\ ~measuring))
    /\ [][((pc = "pass" /\ ~CenterPresent) \/ pc = "emptyWrapRemoved") =>
            /\ snap' = snap
            /\ shouldWrap' = shouldWrap
            /\ ~measuring'
            /\ pc' \in {"emptyWrapRemoved", "idle"}]_vars

\* A pass without center content began wrapped and ended unwrapped.
C12_Witness ==
    /\ pc = "idle"
    /\ lastPass = "empty"
    /\ wrappedBefore
    /\ ~wrapped
    /\ ~measuring

\* C13: without ResizeObserver no hook raises and no observer exists;
\* ngAfterViewInit leaves exactly one callback queued; every later call of
\* scheduleLayoutCheck is an onWindowResize step; ngOnDestroy raises nothing.
C13_DegradedMode ==
    /\ [](~hasResizeObserver => (~observing /\ ~threw))
    /\ [][(~hasResizeObserver /\ phase = "created" /\ phase' = "mounted") =>
            (tasks' = 1 /\ layoutUpdateScheduled' /\ bursts' = 1)]_vars
    /\ [][(~hasResizeObserver /\ phase # "created" /\ NotificationStep) =>
            WindowResize]_vars
    /\ [][(~hasResizeObserver /\ phase = "mounted" /\ phase' = "destroyed") =>
            (~threw' /\ ~observing')]_vars

\* A header without ResizeObserver was mounted, measured once, measured
\* again after a window resize, and was destroyed.
C13_Witness ==
    /\ ~hasResizeObserver
    /\ phase = "destroyed"
    /\ passes >= 2
    /\ bursts >= 2
    /\ ~threw

\* C14: once the instance is destroyed the observer is disconnected and no
\* step is a call of scheduleLayoutCheck, so layoutUpdateScheduled is never
\* set again.
C14_TeardownReleasesObservation ==
    /\ [](phase = "destroyed" => ~observing)
    /\ [][phase = "destroyed" =>
            (~NotificationStep /\ (layoutUpdateScheduled' => layoutUpdateScheduled))]_vars

\* A destroyed header that had an observer, with an idle scheduler that
\* would take a notification if one came.
C14_Witness ==
    /\ phase = "destroyed"
    /\ hasResizeObserver
    /\ ~layoutUpdateScheduled
    /\ tasks = 0
    /\ pc = "idle"
    /\ passes >= 1
    /\ bursts < MaxPasses

\* C15: before ngAfterViewInit nothing is wrapped, measured or queued;
\* ngAfterViewInit itself sets hasCenterContent from the DOM (designer) and
\* leaves exactly one callback queued and no pass run, with or without
\* ResizeObserver; wrapped is off as long as no pass has completed.
C15_Mount ==
    /\ [](phase = "created" =>
            (~wrapped /\ ~measuring /\ tasks = 0 /\ ~layoutUpdateScheduled))
    /\ [][(phase = "created" /\ phase' = "mounted") =>
            /\ tasks' = 1
            /\ layoutUpdateScheduled'
            /\ pc' = "idle"
            /\ passes' = 0
            /\ (variant = "designer" =>
                  hasCenterContent' = (dom.centerInner.present
                                       /\ dom.centerInner.childCount > 0))]_vars
    /\ [](passes = 0 => ~wrapped)

\* The first pass of a header with an observer has decided to wrap and is
\* about to write the class: wrapped is still off.
C15_Witness ==
    /\ hasResizeObserver
    /\ phase = "mounted"
    /\ passes = 0
    /\ pc = "measuringRemoved"
    /\ shouldWrap
    /\ ~wrapped

(***************************************************************************)
(* Specification of the measurement: one header instance over a geometry   *)
(* that stays as it is, drawn from DOMs that differ in the optional nodes, *)
(* in the container's resolved style and in the flexible rows' children.   *)
(***************************************************************************)
\* A child of a flexible row with margins.
ChildWithMargins(minWidth, width, marginLeft, marginRight) ==
    [minWidth |-> minWidth, width |-> width,
     marginLeft |-> marginLeft, marginRight |-> marginRight]

\* A flexible row by its three resolved gap properties.
FlexRowGaps(gaps, kids) == [present |-> TRUE, columnGap |-> gaps[1], gap |-> gaps[2],
                            rowGap |-> gaps[3], children |-> kids]

\* A section by its resolved column-gap and gap.
SectionGaps(width, gaps, fixed, flexible, kids) ==
    [width |-> width, columnGap |-> gaps[1], gap |-> gaps[2], rowGap |-> gaps[2],
     children |-> kids, fixed |-> fixed, flexible |-> flexible]

\* A header by its container width, paddings and gaps, its back column, its
\* two sections and the number of projected center nodes.
MeasureDom(width, pad, gaps, hasBack, left, right, centerKids) ==
    [container |-> [width |-> width, paddingLeft |-> pad[1], paddingRight |-> pad[2],
                    columnGap |-> gaps[1], gap |-> gaps[2]],
     back |-> [present |-> hasBack, width |-> IF hasBack THEN 40 ELSE 0],
     left |-> left,
     right |-> right,
     centerInner |-> [present |-> TRUE, childCount |-> centerKids,
                      scrollWidth |-> IF centerKids > 0 THEN 200 ELSE 0],
     centerContent |-> centerKids > 0]

\* The title and the chip row of the left section, the actions and the
\* extra row of the right section.
LeftFixed == Fixed(160)
LeftFlexible == FlexRow(Px(4), << Child(Px(40), 90) >>)
RightFixed == Fixed(120)
RightFlexible == FlexRow(Px(4), << Child(CssAuto, 60) >>)
LeftKids == << Child(CssAuto, 160), Child(CssAuto, 40) >>
RightKids == << Child(CssAuto, 120), Child(CssAuto, 60) >>
FullLeft == Section(208, LeftFixed, LeftFlexible, LeftKids)
FullRight == Section(188, RightFixed, RightFlexible, RightKids)

\* Container widths: narrower than the paddings, narrower than the back
\* column, between the two wrap thresholds, and wide.
MeasureWidths == {20, 60, 680, 1200}

\* Every subset of the five optional nodes, at every width.
PresenceDoms ==
    {MeasureDom(w, <<Px(16), Px(16)>>, <<Px(8), Px(8)>>, b,
                Section(208, lf, lx, LeftKids), Section(188, rf, rx, RightKids), 1) :
       w \in MeasureWidths, b \in BOOLEAN,
       lf \in {NoFixed, LeftFixed}, lx \in {NoFlexRow, LeftFlexible},
       rf \in {NoFixed, RightFixed}, rx \in {NoFlexRow, RightFlexible}}

\* The resolved paddings and gaps of the container, and of the left section.
Paddings == {<<Px(16), Px(16)>>, <<CssEmpty, CssEmpty>>, <<Px(0), Px(24)>>}
ContainerGaps == {<<Px(8), Px(8)>>, <<Px(12), Px(12)>>, <<CssNormal, Px(12)>>,
                  <<CssNormal, CssNormal>>, <<Px(0), Px(0)>>}
SectionGapsSet == {<<Px(8), Px(8)>>, <<CssNormal, Px(6)>>, <<CssNormal, CssNormal>>,
                   <<Px(0), Px(0)>>}

StyleDoms ==
    {MeasureDom(680, pad, gaps, b,
                SectionGaps(208, sg, LeftFixed, LeftFlexible, LeftKids), FullRight, 1) :
       pad \in Paddings, gaps \in ContainerGaps, b \in BOOLEAN, sg \in SectionGapsSet}

\* The children of a flexible row: none; one without min-width; one with
\* min-width 0; one with negative and auto margins; two and three children.
KidsSet ==
    {<< >>,
     << Child(CssAuto, 90) >>,
     << Child(CssEmpty, 90) >>,
     << Child(Px(0), 90) >>,
     << ChildWithMargins(Px(40), 90, Px(-6), Px(10)) >>,
     << Child(Px(40), 90), ChildWithMargins(CssAuto, 30, CssAuto, Px(-2)) >>,
     << Child(Px(0), 50), Child(CssAuto, 30), ChildWithMargins(Px(24), 24, Px(-4), Px(4)) >>}
RowGaps == {<<Px(4), Px(4), Px(4)>>, <<CssNormal, CssNormal, CssNormal>>,
            <<CssEmpty, Px(4), CssEmpty>>}

\* The same children in the left flexible row and in the right section.
ChildrenDoms ==
    {MeasureDom(680, <<Px(16), Px(16)>>, <<Px(8), Px(8)>>, TRUE,
                Section(208, lf, FlexRowGaps(rg, kids), LeftKids),
                SectionGaps(188, <<rg[1], rg[2]>>, RightFixed, NoFlexRow, kids), 1) :
       lf \in {NoFixed, LeftFixed}, rg \in RowGaps, kids \in KidsSet}

\* Headers without projected center content.
EmptyCenterDoms ==
    {MeasureDom(w, <<Px(16), Px(16)>>, <<Px(8), Px(8)>>, TRUE, FullLeft, FullRight, 0) :
       w \in {680, 1200}}

MeasureDoms == PresenceDoms \cup StyleDoms \cup ChildrenDoms \cup EmptyCenterDoms

InitMeasure == InitCtl(MeasureDoms) /\ InitPure

NextMeasure ==
    \/ Mount
    \/ Destroy
    \/ ObserverCallback
    \/ WindowResize
    \/ TimerFires
    \/ UpdateCenterContentPresence
    \/ PassEmptyRemoveWrap
    \/ PassEmptyRemoveMeasuring
    \/ PassRemoveWrap
    \/ PassAddMeasuring
    \/ PassMeasure
    \/ PassRemoveMeasuring
    \/ PassToggleWrap

SpecMeasure == InitMeasure /\ [][NextMeasure]_vars

(***************************************************************************)
(* Properties of the measurement (SpecMeasure).                            *)
(***************************************************************************)
Max0(x) == IF x > 0 THEN x ELSE 0

\* A resolved length in pixels, 0 when it is not a pixel length.
PxOrZero(v) == IF v.css = "px" THEN v.val ELSE 0

\* The first of two resolved lengths that is a non-zero pixel length.
FirstNonZeroPx(a, b, otherwise) ==
    IF PxOrZero(a) # 0 THEN PxOrZero(a)
    ELSE IF PxOrZero(b) # 0 THEN PxOrZero(b)
    ELSE otherwise

\* The designer header has completed a pass that measured the present DOM.
DesignerMeasured == variant = "designer" /\ pc = "idle" /\ lastPass = "measured"

ContentBoxWidth ==
    Max0(dom.container.width - PxOrZero(dom.container.paddingLeft)
                             - PxOrZero(dom.container.paddingRight))

BackColumnWidth == IF dom.back.present THEN dom.back.width ELSE 0

\* C16: the containerWidth of the designer header's snapshot is the content
\* box width minus the back column and one gap, not below 0, the content box
\* being the bounding width minus both paddings, not below 0.
C16_AvailableWidth ==
    DesignerMeasured =>
        snap.containerWidth = Fin(Max0(ContentBoxWidth - BackColumnWidth - snap.gap.val))

\* A header with a back column has wrapped although the same snapshot with
\* the whole content box width as containerWidth does not wrap.
C16_Witness ==
    /\ DesignerMeasured
    /\ dom.back.present
    /\ wrapped
    /\ ~shouldWrapCenter([snap EXCEPT !.containerWidth = Fin(ContentBoxWidth)])

\* The gap of a flexible row: its first resolved pixel length among
\* column-gap, gap and row-gap.
RowGap(row) ==
    IF row.columnGap.css = "px" THEN row.columnGap.val
    ELSE IF row.gap.css = "px" THEN row.gap.val
    ELSE IF row.rowGap.css = "px" THEN row.rowGap.val
    ELSE 0

\* What one child adds to the minimum width of its row.
ChildContribution(c) ==
    Max0(IF c.minWidth.css = "px" THEN c.minWidth.val ELSE c.width)
    + Max0(PxOrZero(c.marginLeft)) + Max0(PxOrZero(c.marginRight))

RECURSIVE ContributionsUpTo(_, _)
ContributionsUpTo(kids, n) ==
    IF n = 0 THEN 0 ELSE ChildContribution(kids[n]) + ContributionsUpTo(kids, n - 1)

FlexibleMinWidth(row) ==
    IF Len(row.children) = 0 THEN 0
    ELSE ContributionsUpTo(row.children, Len(row.children))
         + RowGap(row) * (Len(row.children) - 1)

\* The width of a section by the four cases of its two sub-parts.
Composition(sec) ==
    CASE sec.fixed.present /\ sec.flexible.present ->
           sec.fixed.scrollWidth + FirstNonZeroPx(sec.columnGap, sec.gap, 0)
           + FlexibleMinWidth(sec.flexible)
      [] sec.fixed.present /\ ~sec.flexible.present -> sec.fixed.scrollWidth
      [] ~sec.fixed.present /\ sec.flexible.present -> FlexibleMinWidth(sec.flexible)
      [] OTHER -> 0

\* C17: the left and right widths of the designer header's snapshot are
\* fixed + gap + flexible when the section has both sub-parts, the fixed
\* width alone or the flexible minimum width alone when it has one, and 0
\* when it has neither.
C17_RegionComposition ==
    DesignerMeasured =>
        /\ snap.leftWidth = Fin(Composition(dom.left))
        /\ snap.rightWidth = Fin(Composition(dom.right))

\* The left section has only its flexible row, the right section has both
\* sub-parts and a gap between them.
C17_Witness ==
    /\ DesignerMeasured
    /\ ~dom.left.fixed.present
    /\ dom.left.flexible.present
    /\ Len(dom.left.flexible.children) > 0
    /\ dom.right.fixed.present
    /\ dom.right.flexible.present
    /\ snap.rightWidth.val > dom.right.fixed.scrollWidth + FlexibleMinWidth(dom.right.flexible)

\* C18: the minimum width measured for a flexible row is the sum over its
\* children of max(0, min-width, or rendered width when min-width is not a
\* length) + max(0, margin-left) + max(0, margin-right), plus the row's gap
\* between each two children, and 0 for a row without children.  It is the
\* left width of a designer header whose left section has only the flexible
\* row, and the right width of the topbar.
C18_FlexibleMinWidth ==
    (pc = "idle" /\ lastPass = "measured") =>
        /\ (variant = "designer" /\ ~dom.left.fixed.present /\ dom.left.flexible.present)
              => snap.leftWidth = Fin(FlexibleMinWidth(dom.left.flexible))
        /\ variant = "topbar" => snap.rightWidth = Fin(FlexibleMinWidth(dom.right))

\* A row of three children has been measured: one with min-width 0 and a
\* rendered width, one without min-width, one with a negative margin.
C18_Witness ==
    /\ DesignerMeasured
    /\ ~dom.left.fixed.present
    /\ dom.left.flexible.present
    /\ Len(dom.left.flexible.children) = 3
    /\ dom.left.flexible.children[1].minWidth = Px(0)
    /\ dom.left.flexible.children[1].width > 0
    /\ dom.left.flexible.children[2].minWidth = CssAuto
    /\ dom.left.flexible.children[3].marginLeft.val < 0
    /\ RowGap(dom.left.flexible) > 0

\* The snapshot of the designer header with every absent node counted as 0.
ExpectedSnapshot ==
    LET gap == FirstNonZeroPx(dom.container.columnGap, dom.container.gap, DefaultGap)
    IN  [containerWidth |-> Fin(Max0(ContentBoxWidth - BackColumnWidth - gap)),
         leftWidth |-> Fin(Composition(dom.left)),
         rightWidth |-> Fin(Composition(dom.right)),
         centerContentWidth |-> Fin(dom.centerInner.scrollWidth),
         gap |-> Fin(gap)]

\* C19: whichever of the back column and the fixed and flexible sub-nodes of
\* the two sections are absent, the measuring step of the designer header
\* goes on to the decision with each absent node counted as 0, a pass ends
\* only by its last statement, and it leaves measuring off and wrapped equal
\* to the decision on that snapshot.
C19_MissingNodes ==
    /\ [][(variant = "designer" /\ pc = "measuring") =>
            (pc' = "measured" /\ snap' = ExpectedSnapshot)]_vars
    /\ [][(variant = "designer" /\ pc # "idle" /\ pc' = "idle") =>
            (pc \in {"emptyWrapRemoved", "measuringRemoved"} /\ ~measuring')]_vars
    /\ [](DesignerMeasured => (~measuring /\ wrapped = Decide(ExpectedSnapshot)))

\* A pass has completed over a header without back column, title, chip row,
\* actions and extra row.
C19_Witness ==
    /\ DesignerMeasured
    /\ ~dom.back.present
    /\ ~dom.left.fixed.present
    /\ ~dom.left.flexible.present
    /\ ~dom.right.fixed.present
    /\ ~dom.right.flexible.present
    /\ snap.leftWidth = Fin(0)
    /\ snap.rightWidth = Fin(0)
    /\ ~measuring

(***************************************************************************)
(* Specification of the end-to-end scenarios: a header with a title of     *)
(* 260, actions of 240 and center content of 300, whose container the      *)
(* environment resizes; the measured passes are recorded.                  *)
(***************************************************************************)
ScenarioDom(width, centerKids) ==
    [container |-> [width |-> width, paddingLeft |-> Px(0), paddingRight |-> Px(0),
                    columnGap |-> Px(8), gap |-> Px(8)],
     back |-> [present |-> FALSE, width |-> 0],
     left |-> Section(260, Fixed(260), NoFlexRow, << Child(CssAuto, 260) >>),
     right |-> Section(240, Fixed(240), NoFlexRow, << Child(CssAuto, 240) >>),
     centerInner |-> [present |-> TRUE, childCount |-> centerKids,
                      scrollWidth |-> IF centerKids > 0 THEN 300 ELSE 0],
     centerContent |-> centerKids > 0]

\* Container widths that leave 1000 and 700 to the three regions: as they
\* are in the topbar, after one gap of 8 in the designer header.
ScenarioWidths == {700, 708, 1000, 1008}

ScenarioDoms == {ScenarioDom(w, 1) : w \in ScenarioWidths} \cup {ScenarioDom(1000, 0)}

InitScenario == InitCtl(ScenarioDoms) /\ InitPure

NextScenario ==
    \/ Mount
    \/ Destroy
    \/ ObserverCallback
    \/ WindowResize
    \/ SetGeometryIn(ScenarioDoms)
    \/ TimerFires
    \/ UpdateCenterContentPresence
    \/ PassEmptyRemoveWrap
    \/ PassEmptyRemoveMeasuring
    \/ PassRemoveWrap
    \/ PassAddMeasuring
    \/ PassMeasure
    \/ PassRemoveMeasuring
    \/ PassToggleWrapRecorded

SpecScenario == InitScenario /\ [][NextScenario]_vars

(***************************************************************************)
(* Properties of the scenarios (SpecScenario).                             *)
(***************************************************************************)
ScenarioA == [containerWidth |-> Fin(1000), leftWidth |-> Fin(260), rightWidth |-> Fin(240),
              centerContentWidth |-> Fin(300), gap |-> Fin(8)]
ScenarioB == [ScenarioA EXCEPT !.containerWidth = Fin(700)]

\* Half of what a snapshot leaves to the two sides.
PerSide(s) == (s.containerWidth.val - s.centerContentWidth.val - 2 * s.gap.val) \div 2

\* C20: every pass that measured snapshot A (per side 342) left the header
\* unwrapped, and every pass that measured the same snapshot with container
\* width 700 (per side 192, below the left width 260) left it wrapped.
C20_ScenariosAB ==
    /\ PerSide(ScenarioA) = 342
    /\ PerSide(ScenarioB) = 192
    /\ \A i \in 1..Len(hist) :
          /\ hist[i].snap = ScenarioA => ~hist[i].wrapped
          /\ hist[i].snap = ScenarioB => hist[i].wrapped
    /\ (pc = "idle" /\ lastPass = "measured" /\ snap = ScenarioA) => ~wrapped
    /\ (pc = "idle" /\ lastPass = "measured" /\ snap = ScenarioB) => wrapped

\* A pass over snapshot A left the header unwrapped and a later pass over
\* snapshot B wrapped it.
C20_Witness ==
    \E i, j \in 1..Len(hist) :
        /\ i < j
        /\ hist[i].snap = ScenarioA
        /\ ~hist[i].wrapped
        /\ hist[j].snap = ScenarioB
        /\ hist[j].wrapped

(***************************************************************************)
(* Properties of the inside of a pass (Spec).                              *)
(***************************************************************************)
\* The positions of updateCenterWrapState.
PassPositions == {"pass", "emptyWrapRemoved", "wrapRemoved", "measuring", "measured",
                  "measuringRemoved"}

\* C21: whenever the pass stands before its geometry reads, the wrap class
\* is off and the measuring class is on; the step that reads the geometry
\* and decides leaves both as they are; and when the pass stands before the
\* assignment of the decision to wrapped, the measuring class is off again.
C21_OrderInsidePass ==
    /\ [](pc = "measuring" => (~wrapped /\ measuring))
    /\ [][(pc = "measuring" \/ snap' # snap \/ shouldWrap' # shouldWrap) =>
            (pc = "measuring" /\ ~wrapped /\ measuring /\ ~wrapped' /\ measuring')]_vars
    /\ [](pc = "measuringRemoved" => (~measuring /\ ~wrapped))
    /\ [][(pc \in PassPositions /\ wrapped') => (pc = "measuringRemoved" /\ ~measuring)]_vars

\* A pass that began wrapped stands before its geometry reads.
C21_Witness ==
    /\ pc = "measuring"
    /\ wrappedBefore
    /\ ~wrapped
    /\ measuring

\* C22: measuring is off whenever no timer callback is running: before and
\* after ngAfterViewInit, with or without a callback queued, and after every
\* pass.
C22_MeasuringOnlyInsidePass == pc = "idle" => ~measuring

\* Two passes have completed, the last one a measuring one, and another
\* callback is queued.
C22_Witness ==
    /\ pc = "idle"
    /\ passes >= 2
    /\ lastPass = "measured"
    /\ layoutUpdateScheduled
    /\ tasks = 1
    /\ ~measuring

(***************************************************************************)
(* Specification of the interleaving: the same instance, where a           *)
(* notification may also be delivered while the timer callback is on the   *)
(* stack, and where the event loop runs every queued callback and runs it  *)
(* to its end.                                                             *)
(***************************************************************************)
InterleavingDoms == {MkDom(400, 1, TRUE), MkDom(1200, 1, TRUE), MkDom(1200, 0, TRUE)}

\* Mutant: the handler called during a pass runs updateCenterWrapState
\* itself, from its first statement.
NotifyDuringPassReenters ==
    /\ pc # "idle"
    /\ observing \/ phase = "mounted"
    /\ CanNotify
    /\ ScheduleLayoutCheck
    /\ pc' = "pass"
    /\ UNCHANGED <<phase, observing, threw, hasCenterContent, passVars, envVars, pureVars>>

\* The ResizeObserver callback or onWindowResize, entered while the timer
\* callback has not returned: scheduleLayoutCheck and nothing else.
NotifyDuringPass ==
    /\ pc # "idle"
    /\ observing \/ phase = "mounted"
    /\ CanNotify
    /\ ScheduleLayoutCheck
    /\ UNCHANGED <<phase, observing, threw, hasCenterContent, pc, passVars, envVars, pureVars>>

InitInterleaved == InitCtl(InterleavingDoms) /\ InitPure

\* A step of the timer callback.
CallbackStep ==
    \/ TimerFires
    \/ UpdateCenterContentPresence
    \/ PassEmptyRemoveWrap
    \/ PassEmptyRemoveMeasuring
    \/ PassRemoveWrap
    \/ PassAddMeasuring
    \/ PassMeasure
    \/ PassRemoveMeasuring
    \/ PassToggleWrap

NextInterleaved ==
    \/ Mount
    \/ Destroy
    \/ ObserverCallback
    \/ WindowResize
    \/ NotifyDuringPass
    \/ SetGeometryIn(InterleavingDoms)
    \/ CallbackStep

SpecInterleaved == InitInterleaved /\ [][NextInterleaved]_vars /\ WF_vars(CallbackStep)

(***************************************************************************)
(* Properties of the interleaving (SpecInterleaved).                       *)
(***************************************************************************)
\* C23: a callback is taken from the queue only while none is running; a
\* notification delivered during a pass leaves the pass where it stands and
\* its flags and locals as they are, and only leaves a callback queued.
C23_PassesSerialized ==
    /\ [][tasks' < tasks => (pc = "idle" /\ pc' # "idle")]_vars
    /\ [][(pc # "idle" /\ NotificationStep) =>
            /\ pc' = pc
            /\ UNCHANGED <<wrapped, measuring, snap, shouldWrap, lastPass, passes>>
            /\ layoutUpdateScheduled'
            /\ tasks' = 1]_vars
    /\ [](pc # "idle" => tasks <= 1)

\* A notification was delivered during a measuring pass: the pass stands
\* before its geometry reads and a later callback is queued.
C23_Witness ==
    /\ pc = "measuring"
    /\ layoutUpdateScheduled
    /\ tasks = 1
    /\ measuring

\* The passes begun so far.
PassesStarted == passes + PassInProgress

\* C24: whenever layoutUpdateScheduled is set on a mounted instance, a
\* further pass begins later on; and in the end the scheduler is idle for
\* good, with no callback queued and none running.
C24_NoLostUpdate ==
    /\ \A n \in 0..(MaxPasses + 1) :
          (phase = "mounted" /\ layoutUpdateScheduled /\ PassesStarted = n)
              ~> (PassesStarted > n)
    /\ <>[](~layoutUpdateScheduled /\ tasks = 0 /\ pc = "idle")

\* A mounted instance has served every burst, one of them of several
\* notifications, and is idle.
C24_Witness ==
    /\ phase = "mounted"
    /\ pc = "idle"
    /\ ~layoutUpdateScheduled
    /\ tasks = 0
    /\ notified >= 2
    /\ passes >= 2
    /\ passes = bursts

(***************************************************************************)
(* Properties of repeated passes and of the frame of a pass.               *)
(***************************************************************************)
\* C25 (SpecResize): when two measured passes in a row read the same
\* geometry, the second leaves wrapped and measuring as the first left them.
C25_PassIdempotent ==
    \A i \in 1..(Len(hist) - 1) :
        hist[i].dom = hist[i + 1].dom =>
            /\ hist[i + 1].wrapped = hist[i].wrapped
            /\ hist[i + 1].measuring = hist[i].measuring

\* Two passes in a row over the narrow geometry: the second one removed the
\* wrap class the first had set, and set it again.
C25_Witness ==
    /\ Len(hist) >= 2
    /\ hist[1].dom = hist[2].dom
    /\ hist[1].wrapped
    /\ hist[2].wrapped
    /\ ~hist[2].measuring

\* C26 (Spec): no statement of updateCenterWrapState changes
\* layoutUpdateScheduled, the callback queue, hasCenterContent, the observer
\* subscription, the life-cycle phase or the geometry of the DOM.
C26_PassFrame ==
    [][(pc \in PassPositions) =>
         UNCHANGED <<layoutUpdateScheduled, tasks, hasCenterContent, observing, phase,
                     threw, dom, variant, hasResizeObserver>>]_vars

\* A measuring pass has wrapped a header that is mounted and observed, has
\* center content and has nothing pending.
C26_Witness ==
    /\ pc = "idle"
    /\ lastPass = "measured"
    /\ wrapped
    /\ ~wrappedBefore
    /\ phase = "mounted"
    /\ observing
    /\ CenterPresent
    /\ ~layoutUpdateScheduled
    /\ tasks = 0

(***************************************************************************)
(* Further properties of the decision function (SpecDecision).             *)
(***************************************************************************)
\* C27: with a positive container and center width, a snapshot that leaves
\* nothing for the sides wraps, whatever the side widths.
C27_NoRemainingSpaceWraps ==
    (applied /\ Width(args.containerWidth) > 0 /\ Width(args.centerContentWidth) > 0
             /\ Remaining <= 0)
        => result

\* The center exactly fills the container, without gap and with empty sides.
C27_Witness ==
    /\ applied
    /\ Width(args.containerWidth) > 0
    /\ args.centerContentWidth = args.containerWidth
    /\ args.gap = Fin(0)
    /\ args.leftWidth = Fin(0)
    /\ args.rightWidth = Fin(0)
    /\ result

\* The snapshot with its left and right widths exchanged.
Swapped(s) == [s EXCEPT !.leftWidth = s.rightWidth, !.rightWidth = s.leftWidth]

\* C28: the result for a snapshot is the result for the snapshot with left
\* and right widths exchanged.
C28_LeftRightSymmetry == applied => (result = shouldWrapCenter(Swapped(args)))

\* Only the left side exceeds its half-share; exchanged, only the right does.
C28_Witness ==
    /\ applied
    /\ result
    /\ Width(args.containerWidth) > 0
    /\ Width(args.centerContentWidth) > 0
    /\ Remaining > 0
    /\ 2 * Width(args.leftWidth) > Remaining
    /\ 2 * Width(args.rightWidth) <= Remaining
    /\ shouldWrapCenter(Swapped(args))

\* C30: with a positive container and center width, a snapshot whose three
\* widths and two gaps sum above the container width wraps.
C30_StricterThanPlainSum ==
    (applied /\ Width(args.containerWidth) > 0 /\ Width(args.centerContentWidth) > 0
             /\ Width(args.leftWidth) + Width(args.rightWidth)
                  + Width(args.centerContentWidth) + 2 * Width(args.gap)
                  > Width(args.containerWidth))
        => result

\* The sum exceeds the container while something remains for the sides and
\* the left side is within its half-share: the right side alone decides.
C30_Witness ==
    /\ applied
    /\ Width(args.containerWidth) > 0
    /\ Width(args.centerContentWidth) > 0
    /\ Remaining > 0
    /\ Width(args.leftWidth) + Width(args.rightWidth) > Remaining
    /\ Width(args.leftWidth) > 0
    /\ 2 * Width(args.leftWidth) <= Remaining
    /\ result

(***************************************************************************)
(* The topbar's measurement (SpecMeasure).                                 *)
(***************************************************************************)
TopbarMeasured == variant = "topbar" /\ pc = "idle" /\ lastPass = "measured"

\* C29: the topbar's left width is, with a back/title node, its intrinsic
\* width plus the flexible minimum width of the left content and the left
\* section's gap (8 when it resolves none) when that node exists, and,
\* without a back/title node, the rendered width of the left section; its
\* container width is the content box width, no back column subtracted.
C29_TopbarLeftWidth ==
    TopbarMeasured =>
        /\ dom.left.fixed.present =>
              snap.leftWidth =
                Fin(dom.left.fixed.scrollWidth
                    + (IF dom.left.flexible.present
                       THEN FirstNonZeroPx(dom.left.columnGap, dom.left.gap, DefaultGap)
                            + FlexibleMinWidth(dom.left.flexible)
                       ELSE 0))
        /\ ~dom.left.fixed.present => snap.leftWidth = Fin(dom.left.width)
        /\ snap.containerWidth = Fin(ContentBoxWidth)

\* A topbar with a title and a left content row whose section resolves no
\* gap, beside a back column that is not subtracted.
C29_Witness ==
    /\ TopbarMeasured
    /\ dom.left.fixed.present
    /\ dom.left.flexible.present
    /\ dom.left.columnGap = CssNormal
    /\ dom.left.gap = CssNormal
    /\ dom.back.present
    /\ snap.leftWidth.val = dom.left.fixed.scrollWidth + DefaultGap
                            + FlexibleMinWidth(dom.left.flexible)
    /\ snap.containerWidth.val > 0

(***************************************************************************)
(* Further properties of the pass and of the presence check (Spec).        *)
(***************************************************************************)
\* C31: the wrap class and the measuring class are never on the container
\* together, at any statement of a pass nor between passes.
C31_NeverWrappedAndMeasuring == ~(wrapped /\ measuring)

\* A pass that began wrapped has measured with the measuring class on and
\* the wrap class off, and has decided to wrap again.
C31_Witness ==
    /\ pc = "measured"
    /\ wrappedBefore
    /\ shouldWrap
    /\ measuring
    /\ ~wrapped

\* C33: in the designer header the step of the timer callback before the
\* pass sets hasCenterContent from the DOM of that moment; throughout the
\* pass hasCenterContent is the presence in the DOM; and a pass ends as one
\* without center content exactly when the DOM has none, with wrapped off.
C33_PresenceAtExecutionTime ==
    /\ [][(variant = "designer" /\ pc = "timer") =>
            (pc' = "pass" /\ hasCenterContent' = centerContentPresence(dom))]_vars
    /\ []((variant = "designer" /\ pc \in PassPositions) =>
            hasCenterContent = centerContentPresence(dom))
    /\ [][(variant = "designer" /\ pc # "idle" /\ pc' = "idle") =>
            /\ (lastPass' = "empty") <=> ~centerContentPresence(dom)
            /\ ~centerContentPresence(dom) => ~wrapped']_vars

\* A designer header that was mounted with center content and wrapped has
\* lost the content, and its next pass has cleared wrapped.
C33_Witness ==
    /\ variant = "designer"
    /\ pc = "idle"
    /\ passes >= 2
    /\ lastPass = "empty"
    /\ wrappedBefore
    /\ ~wrapped
    /\ ~hasCenterContent
    /\ ~centerContentPresence(dom)

(***************************************************************************)
(* Specification of the aborted pass: the same instance, where a DOM call  *)
(* of the timer callback may raise, which ends the callback where it       *)
(* stands.                                                                 *)
(***************************************************************************)
\* An exception leaves the timer callback: nothing after the raising
\* statement runs, and the classes stay as they are.
PassAborts ==
    /\ pc \in {"timer"} \cup PassPositions
    /\ pc' = "idle"
    /\ lastPass' = "aborted"
    /\ passes' = passes + 1
    /\ UNCHANGED <<phase, observing, threw, hasCenterContent, wrapped, measuring, snap,
                   shouldWrap, wrappedBefore, hist, schedVars, envVars, pureVars>>

InitAbort == InitCtl(InterleavingDoms) /\ InitPure

NextAbort ==
    \/ Mount
    \/ Destroy
    \/ ObserverCallback
    \/ WindowResize
    \/ SetGeometryIn(InterleavingDoms)
    \/ TimerFires
    \/ UpdateCenterContentPresence
    \/ PassEmptyRemoveWrap
    \/ PassEmptyRemoveMeasuring
    \/ PassRemoveWrap
    \/ PassAddMeasuring
    \/ PassMeasure
    \/ PassRemoveMeasuring
    \/ PassToggleWrap
    \/ PassAborts

SpecAbort == InitAbort /\ [][NextAbort]_vars

(***************************************************************************)
(* Properties of the aborted pass (SpecAbort).                             *)
(***************************************************************************)
\* C32: layoutUpdateScheduled is set exactly when one callback is queued,
\* and never more than one is; the callback clears the flag as it starts,
\* so the flag is off throughout the presence check and the pass; an abort
\* leaves the flag off and nothing queued; and a call of scheduleLayoutCheck
\* that finds the flag off, after an abort as well, queues a callback.
C32_FlagMatchesQueue ==
    /\ [](layoutUpdateScheduled <=> tasks = 1)
    /\ [](tasks <= 1)
    /\ [](pc # "idle" => ~layoutUpdateScheduled)
    /\ [][(pc # "idle" /\ passes' # passes /\ lastPass' = "aborted") =>
            (pc' = "idle" /\ ~layoutUpdateScheduled' /\ tasks' = 0)]_vars
    /\ [][(NotificationStep /\ ~layoutUpdateScheduled) =>
            (layoutUpdateScheduled' /\ tasks' = 1)]_vars

\* After an aborted pass a notification has queued a new callback.
C32_Witness ==
    /\ pc = "idle"
    /\ lastPass = "aborted"
    /\ layoutUpdateScheduled
    /\ tasks = 1
    /\ passes >= 1

(***************************************************************************)
(* The gap of the snapshot (SpecMeasure).                                  *)
(***************************************************************************)
\* C34: the gap of a measured snapshot, in either component, is the
\* container's column-gap when that is a non-zero pixel length, else its gap
\* when that is one, else 8; it is a finite number other than 0.
C34_ContainerGapFallback ==
    (pc = "idle" /\ lastPass = "measured") =>
        /\ snap.gap = Fin(FirstNonZeroPx(dom.container.columnGap, dom.container.gap, 8))
        /\ snap.gap.kind = "finite"
        /\ snap.gap.val # 0

\* A container whose column-gap and gap both resolve to 0 was measured with
\* a gap of 8.
C34_Witness ==
    /\ pc = "idle"
    /\ lastPass = "measured"
    /\ dom.container.columnGap = Px(0)
    /\ dom.container.gap = Px(0)
    /\ snap.gap = Fin(8)

\* C35: a designer header without back column hands the content box width
\* minus one gap, not below 0, to the decision.
C35_NoBackColumnStillSubtractsGap ==
    (DesignerMeasured /\ ~dom.back.present) =>
        snap.containerWidth = Fin(Max0(ContentBoxWidth - snap.gap.val))

\* A header without back column, wide enough for the subtraction to show.
C35_Witness ==
    /\ DesignerMeasured
    /\ ~dom.back.present
    /\ ContentBoxWidth > snap.gap.val
    /\ snap.containerWidth.val < ContentBoxWidth
    /\ snap.containerWidth.val = ContentBoxWidth - snap.gap.val

(***************************************************************************)
(* The copies of the decision function (SpecDecision).                     *)
(***************************************************************************)
\* C36: on every snapshot the function of the second designer header, the
\* function of the first one and the function of the topbar return the same
\* result.
C36_CopiesAgree ==
    applied =>
        /\ result = shouldWrapCenterFirstCopy(args)
        /\ result = topbarShouldWrapCenter(args)

\* The three copies wrap a snapshot that the plain sum would leave on one
\* row.
C36_Witness ==
    /\ applied
    /\ result
    /\ shouldWrapCenterFirstCopy(args)
    /\ topbarShouldWrapCenter(args)
    /\ ~shouldWrapCenterPlainSum(args)

==============================================================================
